---- MODULE Spec2Model ----
(***************************************************************************)
(* Model of nnsight's Invoker (src/nnsight/contexts/Invoker.py) and of the *)
(* Tracer fields it reads and writes.  One action per Invoker method;      *)
(* every action is the whole method.  The Model Adapter (tracer.model) and *)
(* the Intervention Graph (tracer.graph) are collaborators whose code is   *)
(* not in Invoker.py; they are modelled from their documented contract.    *)
(***************************************************************************)
EXTENDS Integers, Sequences, FiniteSets, TLC

\* ---------------------------------------------------------------- bounds
MaxInvokers == 2      \* coordinators constructed in one session
MaxLen      == 2      \* positional inputs of one coordinator
MaxEnters   == 2      \* calls of __enter__ in one session
MaxNodes    == 1      \* calls of apply in one session

\* ------------------------------------------------------- adapter's domain
\* A sample is an integer; Offset is the adapter's encoding step, the kind
\* of a sample (its residue) survives the encoding.
Offset       == 10
ShapeBad     == 3     \* kind the forward pass rejects (shape mismatch)
Unbatchable  == 4     \* kind the batching operation rejects

Kind(s) == s % Offset

\* n well-formed samples, alternating between the two well-formed values
Good(n) == [j \in 1..n |-> 1 + (j % 2)]

\* The caller's positional inputs: well-formed inputs of every length up to
\* MaxLen (the empty one included), and full-length inputs whose last
\* sample is of a rejected kind.
RawInputs ==
    {Good(n) : n \in 0..MaxLen}
    \cup {Append(Good(MaxLen - 1), d) : d \in {ShapeBad, Unbatchable}}

NoInvoker == 0
NoError   == "none"
NoHandle  == 0

HasKind(inputs, k) == \E j \in 1..Len(inputs) : Kind(inputs[j]) = k

\* model._prepare_inputs(*inputs, **kwargs) -> (normalized, batch_size).
\* Rejects an empty input; otherwise encodes every sample and reports how
\* many samples this invocation contributes.
prepare_inputs(inputs, kwargs) ==
    IF Len(inputs) = 0
    THEN [raised |-> "InputPreparationError", inputs |-> inputs, batch_size |-> 0]
    ELSE [raised |-> NoError,
          inputs |-> [j \in 1..Len(inputs) |-> inputs[j] + Offset],
          batch_size |-> Len(inputs)]

\* model._batch_inputs(batched_input, *inputs) -> batched_input.
batch_inputs(batched_input, inputs) ==
    IF HasKind(inputs, Unbatchable)
    THEN [raised |-> "BatchingError", batched_input |-> batched_input]
    ELSE [raised |-> NoError, batched_input |-> batched_input \o inputs]

\* model._execute(*inputs, **kwargs) under the ambient execution mode.
\* It may write to the objects it is handed: inputs/kwargs are the values
\* of those objects when the call is over.
execute(inputs, kwargs, fake) ==
    [raised |-> IF HasKind(inputs, ShapeBad)
                THEN (IF fake THEN "ScanValidationError" ELSE "ExecutionError")
                ELSE NoError,
     inputs |-> [j \in 1..Len(inputs) |-> 0],
     kwargs |-> kwargs + 1]

\* graph.add(target, args, kwargs) -> proxy: appends one node, the proxy is
\* the node's position.
graph_add(graph, target, args) ==
    [graph |-> Append(graph, [target |-> target, args |-> args]),
     handle |-> Len(graph) + 1]


\* ------------------------------------------------------------------ state
VARIABLES
    invokers,       \* constructed Invokers: <<[inputs, scan, kwargs], ...>>
    invoker,        \* tracer.invoker: index into invokers, or NoInvoker
    batch_start,    \* tracer.batch_start
    batch_size,     \* tracer.batch_size
    batched_input,  \* tracer.batched_input
    graph,          \* tracer.graph: sequence of nodes
    kwargs,         \* tracer.kwargs
    fake_mode,      \* ambient FakeTensorMode in force
    calls,          \* steps of the last __enter__: <<[fn, fake], ...>>
    result,         \* outcome of the last operation
    outstanding,    \* exc_val handed to the last operation (__exit__ only)
    status,         \* history: per Invoker "new" | "failed" | "open" | "closed"
    entered,        \* history: per Invoker, number of completed __enter__
    hist,           \* history: <<[size, inputs]>> of completed __enter__
    seq_run,        \* history: the run so far is strictly sequential
    nenter          \* number of __enter__ calls so far

vars == <<invokers, invoker, batch_start, batch_size, batched_input, graph,
          kwargs, fake_mode, calls, result, outstanding, status, entered, hist,
          seq_run, nenter>>

tracer_batch == <<batch_start, batch_size, batched_input>>

Targets    == {"f"}
CallKwargs == {0}
Exceptions == {NoError, "ExecutionError"}

Result(op, self, raised, ret) ==
    [op |-> op, self |-> self, raised |-> raised, ret |-> ret]

Call(fn, fake) == [fn |-> fn, fake |-> fake]

Init ==
    /\ invokers = << >>
    /\ invoker = NoInvoker
    /\ batch_start = 0
    /\ batch_size = 0
    /\ batched_input = << >>
    /\ graph = << >>
    /\ kwargs = 0
    /\ fake_mode = FALSE
    /\ calls = << >>
    /\ result = Result("init", NoInvoker, NoError, NoHandle)
    /\ outstanding = NoError
    /\ status = << >>
    /\ entered = << >>
    /\ hist = << >>
    /\ seq_run = TRUE
    /\ nenter = 0

\* ------------------------------------------------------ Invoker.__init__
\* Tracer.invoke constructs an Invoker for the with-statement that enters
\* it: a new one is constructed once the previous one has been through
\* __enter__.
New(raw, scan, kw) ==
    /\ Len(invokers) < MaxInvokers
    /\ \A j \in 1..Len(status) : status[j] # "new"
    /\ invokers' = Append(invokers, [inputs |-> raw, scan |-> scan, kwargs |-> kw])
    /\ status' = Append(status, "new")
    /\ entered' = Append(entered, 0)
    /\ result' = Result("new", Len(invokers) + 1, NoError, NoHandle)
    /\ outstanding' = NoError
    /\ calls' = << >>
    /\ UNCHANGED <<invoker, batch_start, batch_size, batched_input, graph,
                   kwargs, fake_mode, hist, seq_run, nenter>>

\* ----------------------------------------------------- Invoker.__enter__
\* line 57: self.tracer.invoker = self
InvokerAfterEnter(current, self) == self

\* variant: the normalized inputs are not stored in self.inputs
InputsAfterPrepare_Kept(current, prep) == current

\* line 59: self.inputs, batch_size = _prepare_inputs(...): self.inputs is
\* rebound to the normalized inputs when the call returns
InputsAfterPrepare(current, prep) ==
    IF prep.raised = NoError THEN prep.inputs ELSE current

\* variant: the dry run is made whatever self.scan says
ScanRequested_Always(scan) == TRUE

\* line 63: if self.scan
ScanRequested(scan) == scan

\* variant: the dry run executes outside the symbolic mode
ScanMode_Real == FALSE

\* lines 66-70: the dry run executes inside FakeTensorMode/FakeCopyMode
ScanMode == TRUE

\* variant: the mode is not released when the dry run raises
FakeModeAfterScan_LeaksOnRaise(before, raised) ==
    IF raised # NoError THEN TRUE ELSE before

\* lines 66-73: the with-blocks release the mode on return and on raise
FakeModeAfterScan(before, raised) == before

\* variant: _execute is handed the objects themselves
AfterScan_Aliased(original, written) == written

\* line 72: _execute receives deep copies, so what it writes to its
\* arguments is not seen through self.inputs / tracer.kwargs
AfterScan(original, written) == original

\* variant: a failure of the dry run does not stop the bookkeeping
BookkeepingReached_DespiteScan(prepRaised, scanRaised) ==
    prepRaised = NoError

\* variant: a failure of _prepare_inputs does not stop the bookkeeping
BookkeepingReached_DespitePrepare(prepRaised, scanRaised) ==
    scanRaised = NoError

\* lines 59-77: an exception of _prepare_inputs or of the dry run leaves
\* __enter__ before the bookkeeping
BookkeepingReached(prepRaised, scanRaised) ==
    prepRaised = NoError /\ scanRaised = NoError

\* variant: the previous batch size is subtracted
BatchStartAfter_Subtracted(start, size, new_size) == start - size

\* variant: batch_size is overwritten before it is added
BatchStartAfter_Overwritten(start, size, new_size) == start + new_size

\* line 77: self.tracer.batch_start += self.tracer.batch_size
BatchStartAfter(start, size, new_size) == start + size

\* variant: the new batch size is added to batch_size
BatchSizeAfter_Accumulated(size, new_size) == size + new_size

\* line 78: self.tracer.batch_size = batch_size
BatchSizeAfter(size, new_size) == new_size

\* variant: reset() is called after the dry run as well
EnterCalls_ResetAfterScan(prepOk, scan, mode, book) ==
    <<Call("prepare_inputs", FALSE)>>
    \o (IF ~prepOk THEN << >>
        ELSE IF scan THEN <<Call("clear", FALSE), Call("execute", mode),
                            Call("reset", FALSE)>>
        ELSE <<Call("reset", FALSE)>>)
    \o (IF book THEN <<Call("bookkeeping", FALSE), Call("batch_inputs", FALSE)>>
        ELSE << >>)

\* lines 59-83: the adapter calls and the bookkeeping step, in order
EnterCalls(prepOk, scan, mode, book) ==
    <<Call("prepare_inputs", FALSE)>>
    \o (IF ~prepOk THEN << >>
        ELSE IF scan THEN <<Call("clear", FALSE), Call("execute", mode)>>
        ELSE <<Call("reset", FALSE)>>)
    \o (IF book THEN <<Call("bookkeeping", FALSE), Call("batch_inputs", FALSE)>>
        ELSE << >>)

Enter(i) ==
    /\ i \in 1..Len(invokers)
    /\ nenter < MaxEnters
    /\ LET me     == invokers[i]
           prep   == prepare_inputs(me.inputs, me.kwargs)
           prepOk == prep.raised = NoError
           scan   == prepOk /\ ScanRequested(me.scan)
           stored == InputsAfterPrepare(me.inputs, prep)
           ex     == execute(stored, kwargs, ScanMode)
           scanRaised == IF scan THEN ex.raised ELSE NoError
           inputs == IF scan THEN AfterScan(stored, ex.inputs) ELSE stored
           book   == BookkeepingReached(prep.raised, scanRaised)
           bi     == batch_inputs(batched_input, inputs)
           raised == IF ~prepOk THEN prep.raised
                     ELSE IF scanRaised # NoError THEN scanRaised
                     ELSE IF book THEN bi.raised
                     ELSE NoError
           ok     == raised = NoError
       IN  /\ invoker' = InvokerAfterEnter(invoker, i)
           /\ invokers' = [invokers EXCEPT ![i].inputs = inputs]
           /\ kwargs' = IF scan THEN AfterScan(kwargs, ex.kwargs) ELSE kwargs
           /\ fake_mode' = IF scan THEN FakeModeAfterScan(fake_mode, scanRaised)
                           ELSE fake_mode
           /\ batch_start' = IF book
                             THEN BatchStartAfter(batch_start, batch_size, prep.batch_size)
                             ELSE batch_start
           /\ batch_size' = IF book
                            THEN BatchSizeAfter(batch_size, prep.batch_size)
                            ELSE batch_size
           /\ batched_input' = IF book THEN bi.batched_input ELSE batched_input
           /\ calls' = EnterCalls(prepOk, scan, ScanMode, book)
           /\ result' = Result("enter", i, raised, IF ok THEN i ELSE NoHandle)
           /\ status' = [status EXCEPT ![i] = IF ok THEN "open"
                                              ELSE IF @ = "new" THEN "failed"
                                              ELSE @]
           /\ entered' = IF ok THEN [entered EXCEPT ![i] = @ + 1] ELSE entered
           /\ hist' = IF ok
                      THEN Append(hist, [size |-> prep.batch_size, inputs |-> inputs])
                      ELSE hist
           /\ seq_run' = (seq_run /\ ok /\ status[i] = "new"
                          /\ \A j \in 1..Len(status) : status[j] # "open")
    /\ nenter' = nenter + 1
    /\ outstanding' = NoError
    /\ UNCHANGED graph

\* ------------------------------------------------------ Invoker.__exit__
\* lines 88-91: raise exc_val comes before the reference is cleared
InvokerAfterExit(current, exc_val) ==
    IF exc_val # NoError THEN current ELSE NoInvoker

\* variant: __exit__ swallows the outstanding exception
ExitRaised_Suppressed(exc_val) == NoError

\* lines 88-89: if isinstance(exc_val, BaseException): raise exc_val
ExitRaised(exc_val) == exc_val

Exit(i, exc_val) ==
    /\ i \in 1..Len(invokers)
    /\ status[i] = "open"
    /\ invoker' = InvokerAfterExit(invoker, exc_val)
    /\ status' = [status EXCEPT ![i] = "closed"]
    /\ result' = Result("exit", i, ExitRaised(exc_val), NoHandle)
    /\ outstanding' = exc_val
    /\ seq_run' = (seq_run /\ exc_val = NoError)
    /\ calls' = << >>
    /\ UNCHANGED <<invokers, batch_start, batch_size, batched_input, graph,
                   kwargs, fake_mode, entered, hist, nenter>>

\* -------------------------------------------------------- Invoker.apply
\* variant: the node is added twice
ApplyGraph_Twice(g, target, args) ==
    graph_add(graph_add(g, target, args).graph, target, args)

\* line 102: return self.tracer.graph.add(target=target, args=args, kwargs=kwargs)
ApplyGraph(g, target, args) == graph_add(g, target, args)

Apply(i, target) ==
    /\ i \in 1..Len(invokers)
    /\ Len(graph) < MaxNodes
    /\ LET added == ApplyGraph(graph, target, << >>)
       IN  /\ graph' = added.graph
           /\ result' = Result("apply", i, NoError, added.handle)
    /\ outstanding' = NoError
    /\ calls' = << >>
    /\ UNCHANGED <<invokers, invoker, batch_start, batch_size, batched_input,
                   kwargs, fake_mode, status, entered, hist, seq_run, nenter>>

Next ==
    \/ \E raw \in RawInputs, scan \in BOOLEAN, kw \in CallKwargs : New(raw, scan, kw)
    \/ \E i \in 1..MaxInvokers : Enter(i)
    \/ \E i \in 1..MaxInvokers, exc_val \in Exceptions : Exit(i, exc_val)
    \/ \E i \in 1..MaxInvokers, target \in Targets : Apply(i, target)

Spec == Init /\ [][Next]_vars

\* ======================================================== properties
Open == {j \in 1..Len(status) : status[j] = "open"}

\* the step is a call of __enter__ on Invoker i
EnterStep(i) ==
    /\ i \in 1..Len(invokers)
    /\ nenter' = nenter + 1
    /\ result'.op = "enter"
    /\ result'.self = i

\* the step is a call of apply on Invoker i
ApplyStep(i) ==
    /\ i \in 1..Len(invokers)
    /\ Len(graph') # Len(graph)
    /\ result'.op = "apply"
    /\ result'.self = i

RECURSIVE SumSizes(_, _)
SumSizes(h, k) == IF k = 0 THEN 0 ELSE SumSizes(h, k - 1) + h[k].size

RECURSIVE ConcatInputs(_, _)
ConcatInputs(h, k) == IF k = 0 THEN << >> ELSE ConcatInputs(h, k - 1) \o h[k].inputs

\* C1: in a run of invocations entered and exited one after another, once
\* the k-th invocation has closed batch_start is the sum of the batch sizes
\* of invocations 1..k-1, batch_size is the k-th batch size and
\* batched_input is the concatenation, in order, of the normalized inputs
\* of invocations 1..k.
C1_SequentialBookkeeping ==
    (seq_run /\ Len(hist) >= 1 /\ Open = {}) =>
        LET k == Len(hist)
        IN  /\ batch_start = SumSizes(hist, k - 1)
            /\ batch_size = hist[k].size
            /\ batched_input = ConcatInputs(hist, k)

C1_Witness ==
    /\ seq_run
    /\ result.op = "exit"
    /\ Len(hist) = 2
    /\ hist[1].size # hist[2].size
    /\ hist[1].size > 0
    /\ batch_start = hist[1].size
    /\ Len(batched_input) = hist[1].size + hist[2].size

\* C2: __enter__ on a second Invoker while another one is entered and not
\* yet exited raises ReentrancyError and leaves batch_start, batch_size and
\* batched_input as they were.
C2_SecondEnterRejected ==
    [][\A i \in 1..MaxInvokers :
         (EnterStep(i) /\ \E j \in Open : j # i) =>
             /\ result'.raised = "ReentrancyError"
             /\ tracer_batch' = tracer_batch]_vars

\* C3: after __exit__ was called with an outstanding exception the
\* tracer's invoker reference is null.
C3_ExitWithExceptionClears ==
    (result.op = "exit" /\ result.raised # NoError) => invoker = NoInvoker

\* C4: __enter__ on an Invoker that has been entered before (still open or
\* already exited) raises ReentrancyError and changes neither the invoker
\* reference nor the batch fields; no Invoker is entered more than once.
C4_SingleUse ==
    [][\A i \in 1..MaxInvokers :
         (EnterStep(i) /\ entered[i] >= 1) =>
             /\ result'.raised = "ReentrancyError"
             /\ invoker' = invoker
             /\ tracer_batch' = tracer_batch
             /\ entered'[i] <= 1]_vars

\* C5: at most one Invoker is entered and not yet exited, the tracer's
\* invoker reference is that Invoker when there is one and null exactly
\* when there is none.
C5_AtMostOneActive ==
    /\ Cardinality(Open) <= 1
    /\ \A j \in Open : invoker = j
    /\ (invoker = NoInvoker) <=> (Open = {})

\* C6: after an __enter__ that raised, the tracer's invoker reference is
\* null.
C6_FailedEnterReleases ==
    (result.op = "enter" /\ result.raised # NoError) => invoker = NoInvoker

\* C7: when _prepare_inputs raises inside __enter__, that error is what
\* __enter__ raises, and batch_start, batch_size and batched_input are the
\* same as before the call.
C7_PrepareFailureLeavesBatch ==
    [][\A i \in 1..MaxInvokers :
         (EnterStep(i)
          /\ prepare_inputs(invokers[i].inputs, invokers[i].kwargs).raised # NoError) =>
             /\ result'.raised =
                    prepare_inputs(invokers[i].inputs, invokers[i].kwargs).raised
             /\ tracer_batch' = tracer_batch]_vars

C7_Witness ==
    /\ result.op = "enter"
    /\ result.raised = "InputPreparationError"
    /\ batch_size > 0
    /\ batched_input # << >>

\* C8: with scan enabled, a failing dry run makes __enter__ raise that
\* failure with the dry run as its last step, and every _execute called by
\* __enter__ runs under the symbolic mode.
C8_ScanFailsBeforeRealExecution ==
    [][\A i \in 1..MaxInvokers :
         EnterStep(i) =>
             LET prep == prepare_inputs(invokers[i].inputs, invokers[i].kwargs)
                 dry  == execute(prep.inputs, kwargs, TRUE)
             IN  /\ \A c \in 1..Len(calls') :
                        calls'[c].fn = "execute" => calls'[c].fake
                 /\ (invokers[i].scan /\ prep.raised = NoError
                     /\ dry.raised # NoError) =>
                        /\ result'.raised = dry.raised
                        /\ calls'[Len(calls')].fn = "execute"]_vars

C8_Witness ==
    /\ result.op = "enter"
    /\ result.raised = "ScanValidationError"
    /\ invokers[result.self].scan
    /\ \E c \in 1..Len(calls) : calls[c].fn = "execute" /\ calls[c].fake

\* C9: apply on an entered, not yet exited Invoker returns the handle made
\* by the graph's add, makes the graph exactly one node longer, and leaves
\* batch_start, batch_size, batched_input and the invoker reference alone.
C9_ApplyAddsOneNode ==
    [][\A i \in 1..MaxInvokers :
         (ApplyStep(i) /\ i \in Open) =>
             /\ Len(graph') = Len(graph) + 1
             /\ result'.raised = NoError
             /\ result'.ret = Len(graph')
             /\ result'.ret # NoHandle
             /\ \A n \in 1..Len(graph) : graph'[n] = graph[n]
             /\ tracer_batch' = tracer_batch
             /\ invoker' = invoker]_vars

C9_Witness ==
    /\ result.op = "apply"
    /\ result.self \in Open
    /\ result.ret = Len(graph)
    /\ Len(graph) = MaxNodes
    /\ batched_input # << >>

\* C10: with scan disabled, inputs the dry run would reject do not make
\* __enter__ raise: when _prepare_inputs and _batch_inputs succeed,
\* __enter__ returns, the Invoker is the tracer's invoker and the batch
\* fields are fully updated.
C10_NoScanDefersShapeError ==
    [][\A i \in 1..MaxInvokers :
         LET prep == prepare_inputs(invokers[i].inputs, invokers[i].kwargs)
         IN  (EnterStep(i)
              /\ ~invokers[i].scan
              /\ prep.raised = NoError
              /\ execute(prep.inputs, kwargs, TRUE).raised # NoError
              /\ batch_inputs(batched_input, prep.inputs).raised = NoError) =>
                 /\ result'.raised = NoError
                 /\ invoker' = i
                 /\ i \in Open'
                 /\ batch_start' = batch_start + batch_size
                 /\ batch_size' = prep.batch_size
                 /\ batched_input' = batched_input \o prep.inputs]_vars

C10_Witness ==
    /\ result.op = "enter"
    /\ result.raised = NoError
    /\ ~invokers[result.self].scan
    /\ HasKind(invokers[result.self].inputs, ShapeBad)
    /\ invoker = result.self
    /\ batch_start > 0

\* C11: the dry run does not change what the real pass consumes: whatever
\* _execute writes to its arguments, tracer.kwargs after __enter__ is what
\* it was before, self.inputs is the normalized input as _prepare_inputs
\* returned it, and that is what is appended to batched_input.
C11_ScanWorksOnCopies ==
    [][\A i \in 1..MaxInvokers :
         LET prep == prepare_inputs(invokers[i].inputs, invokers[i].kwargs)
         IN  (EnterStep(i) /\ invokers[i].scan /\ prep.raised = NoError) =>
                 /\ kwargs' = kwargs
                 /\ invokers'[i].inputs = prep.inputs
                 /\ result'.raised = NoError =>
                        batched_input' = batched_input \o prep.inputs]_vars

C11_Witness ==
    /\ result.op = "enter"
    /\ result.raised = NoError
    /\ invokers[result.self].scan
    /\ \E c \in 1..Len(calls) : calls[c].fn = "execute"
    /\ execute(invokers[result.self].inputs, kwargs, TRUE).inputs
           # invokers[result.self].inputs
    /\ execute(invokers[result.self].inputs, kwargs, TRUE).kwargs # kwargs
    /\ Len(batched_input) > Len(invokers[result.self].inputs)

\* C12 as claimed: no operation changes an Invoker's inputs field after
\* construction.
C12_InputsNeverChange ==
    [][\A i \in 1..Len(invokers) : invokers'[i].inputs = invokers[i].inputs]_vars

\* C12: an Invoker's inputs field is changed by nothing but an __enter__
\* whose _prepare_inputs returns, and that __enter__ replaces it by the
\* normalized inputs; __exit__, apply and an __enter__ whose
\* _prepare_inputs raises leave it alone.
C12_InputsChangeOnlyByNormalization ==
    [][\A i \in 1..Len(invokers) :
         LET prep == prepare_inputs(invokers[i].inputs, invokers[i].kwargs)
             normalizing == EnterStep(i) /\ prep.raised = NoError
         IN  /\ normalizing => invokers'[i].inputs = prep.inputs
             /\ ~normalizing => invokers'[i].inputs = invokers[i].inputs]_vars

C12_Witness ==
    /\ result.op = "exit"
    /\ entered[result.self] = 1
    /\ \E n \in 1..MaxLen :
           invokers[result.self].inputs = [j \in 1..n |-> Good(n)[j] + Offset]

Fns(cs) == [c \in 1..Len(cs) |-> cs[c].fn]

IsPrefix(p, q) == Len(p) <= Len(q) /\ \A c \in 1..Len(p) : p[c] = q[c]

\* the steps of a complete __enter__, by the scan flag
FullEnter(scan) ==
    IF scan
    THEN <<"prepare_inputs", "clear", "execute", "bookkeeping", "batch_inputs">>
    ELSE <<"prepare_inputs", "reset", "bookkeeping", "batch_inputs">>

\* C13: every __enter__ makes its calls in one fixed order: _prepare_inputs
\* first; then clear() and one _execute and no reset() when scan is set,
\* one reset() and no clear() or _execute otherwise; then the batch_start /
\* batch_size update; then _batch_inputs last.  An __enter__ that raises
\* stops at the call that raised; one that returns made all of them.
C13_EnterCallOrder ==
    [][\A i \in 1..MaxInvokers :
         EnterStep(i) =>
             LET fns  == Fns(calls')
                 full == FullEnter(invokers[i].scan)
                 prep == prepare_inputs(invokers[i].inputs, invokers[i].kwargs)
                 updated == \E c \in 1..Len(fns) : fns[c] = "bookkeeping"
             IN  /\ Len(fns) >= 1
                 /\ IsPrefix(fns, full)
                 /\ result'.raised \in {NoError, "BatchingError"} => fns = full
                 /\ result'.raised = "InputPreparationError" => Len(fns) = 1
                 /\ result'.raised = "ScanValidationError" => fns[Len(fns)] = "execute"
                 /\ updated => /\ batch_start' = batch_start + batch_size
                               /\ batch_size' = prep.batch_size
                 /\ ~updated => tracer_batch' = tracer_batch
                 /\ batched_input' # batched_input => fns = full]_vars

C13_Witness ==
    /\ result.op = "enter"
    /\ result.raised = NoError
    /\ Fns(calls) = <<"prepare_inputs", "clear", "execute", "bookkeeping", "batch_inputs">>
    /\ batch_start > 0

\* C14: in a sequential run, while invocation k is entered and not yet
\* exited, the samples of batched_input at positions
\* [batch_start, batch_start + batch_size) are invocation k's normalized
\* input.
C14_ActiveSliceIsOwnInput ==
    (seq_run /\ Open # {}) =>
        \A k \in Open :
            /\ batch_start + batch_size <= Len(batched_input)
            /\ SubSeq(batched_input, batch_start + 1, batch_start + batch_size)
                   = invokers[k].inputs

C14_Witness ==
    /\ seq_run
    /\ Open = {2}
    /\ batch_start > 0
    /\ batch_size > 0
    /\ batch_size # batch_start
    /\ Len(batched_input) = batch_start + batch_size

\* C15: __exit__ called with an outstanding exception raises that same
\* exception; called without one it raises nothing, returns no value and
\* the tracer's invoker reference is null afterwards.
C15_ExitPropagatesUnchanged ==
    result.op = "exit" =>
        /\ result.raised = outstanding
        /\ result.ret = NoHandle
        /\ outstanding = NoError => invoker = NoInvoker

C15_Witness ==
    /\ result.op = "exit"
    /\ outstanding = "ExecutionError"
    /\ result.raised = "ExecutionError"
    /\ batched_input # << >>

\* C16: the symbolic mode is in force during the dry run's _execute only:
\* no other call of __enter__ is made under it, and it is not in force once
\* __enter__ has returned or raised, the dry run's own failure included.
C16_SymbolicModeScoped ==
    /\ ~fake_mode
    /\ \A c \in 1..Len(calls) :
           calls[c].fake <=> calls[c].fn = "execute"

C16_Witness ==
    /\ result.op = "enter"
    /\ result.raised = "ScanValidationError"
    /\ calls[Len(calls)] = Call("execute", TRUE)
    /\ ~fake_mode

\* C17: batch_start never decreases from one state to the next.
C17_BatchStartMonotonic ==
    [][batch_start' >= batch_start]_vars

C17_Witness ==
    /\ result.op = "enter"
    /\ nenter = 2
    /\ batch_start > 0
    /\ batch_start = Len(batched_input) - batch_size

\* C18: when the dry run raises inside __enter__, batch_start, batch_size
\* and batched_input are the same as before the call.
C18_ScanFailureLeavesBatch ==
    [][\A i \in 1..MaxInvokers :
         LET prep == prepare_inputs(invokers[i].inputs, invokers[i].kwargs)
         IN  (EnterStep(i) /\ invokers[i].scan /\ prep.raised = NoError
              /\ execute(prep.inputs, kwargs, TRUE).raised # NoError) =>
                 /\ result'.raised = "ScanValidationError"
                 /\ tracer_batch' = tracer_batch]_vars

C18_Witness ==
    /\ result.op = "enter"
    /\ result.raised = "ScanValidationError"
    /\ batch_size > 0
    /\ batched_input # << >>
    /\ invoker = result.self

\* C19: after every operation batch_start + batch_size is the number of
\* samples in batched_input, an __enter__ whose _batch_inputs raised
\* included.
C19_OffsetsMatchBatchedInput ==
    batch_start + batch_size = Len(batched_input)

====
